---- MODULE Spec2Model ----
(***************************************************************************)
(* Model of bpeddi/aiagents-langchain.                                     *)
(*                                                                         *)
(*   SpecGraph  : the decide/search/respond graph of langgraph_agent.py    *)
(*   SpecInvoke : agent_invocation of lanchain_agent_aws_memory.py         *)
(*   SpecMemory : MemoryMiddleware hooks of lanchain_agent_aws_memory.py,  *)
(*                run by several concurrent invocations on one store       *)
(*                                                                         *)
(* A text is a sequence of tokens (one-character strings where the code    *)
(* looks at characters, longer atoms elsewhere); substring tests are       *)
(* contiguous-subsequence tests on tokens.                                 *)
(***************************************************************************)
EXTENDS Integers, Sequences, FiniteSets, TLC

\* ------------------------------------------------------------------ bounds
MaxRespLen == 4     \* tokens in a model-adapter classification response

\* ------------------------------------------------------------ text helpers
SeqsUpTo(S, n) == UNION {[1..k -> S] : k \in 0..n}

\* str.lower() on one character
LowerChar(c) ==
    CASE c = "Y" -> "y"
      [] c = "E" -> "e"
      [] c = "S" -> "s"
      [] OTHER -> c

\* str.lower()
Lower(t) == [i \in 1..Len(t) |-> LowerChar(t[i])]

\* Python's  sub in t  on strings
In(sub, t) ==
    \E i \in 0..(Len(t) - Len(sub)) : SubSeq(t, i + 1, i + Len(sub)) = sub

\* "\n".join(lines)
RECURSIVE Join(_)
Join(lines) ==
    IF Len(lines) = 0 THEN <<>>
    ELSE IF Len(lines) = 1 THEN lines[1]
    ELSE lines[1] \o <<"\n">> \o Join(Tail(lines))

\* Python values that may be None
PyNone == [t |-> "NoneType"]
PyStr(text) == [t |-> "str", v |-> text]

\* ---------------------------------------------------------------- variables
VARIABLES
    \* langgraph_agent.py
    messages,           \* AgentState["messages"]
    needs_search,       \* AgentState["needs_search"]
    pc,                 \* node the graph executes next, "END" or "aborted"
    trace,              \* nodes whose execution began, in order
    completed,          \* nodes that returned, in order
    raised,             \* the node in which an adapter call raised, or "none"
    inputs,             \* the state handed to app.invoke
    classification,     \* response.content of the decide node's model call
    results,            \* what search_tool.invoke returned
    formatted_results,  \* local of search_node
    prompt,             \* the messages respond_node hands to the model
    answer,             \* response.content of the respond node's model call
    llmCalls,           \* number of llm.invoke calls
    searchCalls,        \* number of search_tool.invoke calls
    \* lanchain_agent_aws_memory.py, agent_invocation
    payload,            \* the argument of agent_invocation
    ipc,                \* "start", "streaming" or "returned"
    config,             \* the RunnableConfig built from the payload
    step,               \* local step
    final_answer,       \* local final_answer
    agentRuns,          \* number of agent_executor.stream calls
    runEnd,             \* how the stream ended: "exhausted", "raised", or "none"
    ret,                \* the returned record
    \* lanchain_agent_aws_memory.py, MemoryMiddleware
    store,              \* the memory store: records in the order first written
    nextUuid,           \* the next value uuid.uuid4() yields
    hpc,                \* per invocation: "pre", "lookup", "model", "post", "done", "failed"
    hconfig,            \* per invocation: config["configurable"]
    hinput,             \* per invocation: the messages the invocation started with
    hstate,             \* per invocation: state["messages"]
    puts,               \* per invocation: the store.put calls it completed
    lookups,            \* per invocation: the store.search calls it made
    preRet,             \* per invocation: what pre_model_hook returned
    postRet             \* per invocation: what post_model_hook returned

gvars == <<messages, needs_search, pc, trace, completed, raised, inputs, classification,
           results, formatted_results, prompt, answer, llmCalls, searchCalls>>

ivars == <<payload, ipc, config, step, final_answer, agentRuns, runEnd, ret>>

mvars == <<store, nextUuid, hpc, hconfig, hinput, hstate, puts, lookups, preRet,
           postRet>>

vars == <<gvars, ivars, mvars>>

\* =========================================================================
\* langgraph_agent.py
\* =========================================================================
RespAlphabet == {"y", "e", "s", "Y", "n"}
Responses == SeqsUpTo(RespAlphabet, MaxRespLen)

Marker == <<"Search results">>
User(c) == [role |-> "user", content |-> c]
Assistant(c) == [role |-> "assistant", content |-> c]

\* the conversations handed to app.invoke: each holds a message, as the
\* decide node reads messages[-1]
Histories ==
    { <<User(<<"a">>)>>,
      <<User(<<"a">>), User(<<"b">>)>>,
      <<User(<<"a">>), Assistant(<<"a">>), User(<<"b">>)>>,
      <<User(<<"b">>), Assistant(<<"a">>)>>,
      <<Assistant(<<"a">>)>>,
      <<User(<<"a">>), Assistant(Marker \o <<"x">>), User(<<"a">>)>>,
      <<Assistant(Marker \o <<"x">>), User(<<"b">>), Assistant(<<"a">>)>> }

ResultItems == {[content |-> <<"a">>], [content |-> <<"b">>]}
\* TavilySearchResults(max_results=3)
max_results == 3
ResultLists == SeqsUpTo(ResultItems, max_results)
Answers == {<<"4">>, <<>>}

AgentState == [messages |-> messages, needs_search |-> needs_search]

Last(s) == s[Len(s)]

\* (mutant) the test without .lower()
should_search_node_case_sensitive(state, response) ==
    [needs_search |-> In(<<"y", "e", "s">>, response)]

\* should_search_node, given the model's response text
should_search_node(state, response) ==
    [needs_search |-> In(<<"y", "e", "s">>, Lower(response))]

\* (mutant) numbering from enumerate's 0
ResultLine_zero_indexed(i, res) == <<"Result ", ToString(i - 1), ": ">> \o res.content

\* the list comprehension of search_node
ResultLine(i, res) == <<"Result ", ToString(i), ": ">> \o res.content
FormatResults(rs) == Join([i \in 1..Len(rs) |-> ResultLine(i, rs[i])])

\* (mutant) returns the whole history with the new message, which
\* operator.add then appends to the history
search_node_returns_history(state, rs) ==
    [messages |->
       state.messages \o
       << [role |-> "assistant",
           content |-> Marker \o <<" for '">> \o Last(state.messages).content
                       \o <<"':", "\n">> \o FormatResults(rs)] >>]

\* search_node, given the adapter's results
search_node(state, rs) ==
    LET query == Last(state.messages).content
    IN [messages |->
          << [role |-> "assistant",
              content |-> Marker \o <<" for '">> \o query \o <<"':", "\n">>
                          \o FormatResults(rs)] >>]

\* the scan loop of respond_node: later matches overwrite earlier ones
RECURSIVE ScanUser(_, _)
ScanUser(msgs, acc) ==
    IF Len(msgs) = 0 THEN acc
    ELSE ScanUser(Tail(msgs),
                  IF Head(msgs).role = "user" THEN PyStr(Head(msgs).content) ELSE acc)

RECURSIVE ScanSearch(_, _)
ScanSearch(msgs, acc) ==
    IF Len(msgs) = 0 THEN acc
    ELSE ScanSearch(Tail(msgs),
                    IF Head(msgs).role # "user" /\ Head(msgs).role = "assistant"
                       /\ In(Marker, Head(msgs).content)
                    THEN PyStr(Head(msgs).content) ELSE acc)

\* Python truthiness of  str | None
Truthy(x) == x # PyNone /\ x.v # <<>>

\* the prompt respond_node assembles
BuildPrompt(state) ==
    LET user_query == ScanUser(state.messages, PyNone)
        search_results == ScanSearch(state.messages, PyNone)
    IN  << [role |-> "system", content |-> <<"You are a helpful assistant.">>] >>
        \o (IF Truthy(search_results)
            THEN << [role |-> "assistant", content |-> search_results.v] >>
            ELSE <<>>)
        \o << [role |-> "user",
               content |-> IF Truthy(user_query) THEN user_query.v
                           ELSE Last(state.messages).content] >>

\* (mutant) returns the whole history, which operator.add then appends again
respond_node_returns_history(state, response) ==
    [messages |-> state.messages \o << [role |-> "assistant", content |-> response] >>]

\* respond_node, given the model's response text
respond_node(state, response) ==
    [messages |-> << [role |-> "assistant", content |-> response] >>]

\* (mutant) the branches swapped
route_after_decision_swapped(state) == IF state.needs_search THEN "respond" ELSE "search"

route_after_decision(state) == IF state.needs_search THEN "search" ELSE "respond"

\* (mutant) "search" wired to END instead of "respond"
EdgeFrom_search_to_end(node) == "END"

\* workflow.add_edge
EdgeFrom(node) == IF node = "search" THEN "respond" ELSE "END"

\* the graph is not running
IdleGraph ==
    /\ messages = <<>>
    /\ needs_search = FALSE
    /\ pc = "idle"
    /\ trace = <<>>
    /\ completed = <<>>
    /\ raised = "none"
    /\ inputs = [messages |-> <<>>, needs_search |-> FALSE]
    /\ classification = <<>>
    /\ results = <<>>
    /\ formatted_results = <<>>
    /\ prompt = <<>>
    /\ answer = <<>>
    /\ llmCalls = 0
    /\ searchCalls = 0

\* agent_invocation is not running
IdleInvoke ==
    /\ payload = PyNone
    /\ ipc = "idle"
    /\ config = PyNone
    /\ step = 0
    /\ final_answer = PyNone
    /\ agentRuns = 0
    /\ runEnd = "none"
    /\ ret = PyNone

\* no invocation uses the memory middleware
IdleMemory ==
    /\ store = <<>>
    /\ nextUuid = 1
    /\ hpc = <<>>
    /\ hconfig = <<>>
    /\ hinput = <<>>
    /\ hstate = <<>>
    /\ puts = <<>>
    /\ lookups = <<>>
    /\ preRet = <<>>
    /\ postRet = <<>>

\* app.invoke(inputs): the graph is entered at "decide"
InitGraph ==
    /\ IdleInvoke
    /\ IdleMemory
    /\ messages \in Histories
    /\ needs_search \in BOOLEAN
    /\ pc = "decide"
    /\ trace = <<>>
    /\ completed = <<>>
    /\ raised = "none"
    /\ inputs = [messages |-> messages, needs_search |-> needs_search]
    /\ classification = <<>>
    /\ results = <<>>
    /\ formatted_results = <<>>
    /\ prompt = <<>>
    /\ answer = <<>>
    /\ llmCalls = 0
    /\ searchCalls = 0

\* node "decide" returns; the conditional edge picks the next node
Decide ==
    /\ pc = "decide"
    /\ UNCHANGED raised
    /\ \E response \in Responses :
         LET upd == should_search_node(AgentState, response)
         IN /\ classification' = response
            /\ needs_search' = upd.needs_search
            /\ pc' = route_after_decision([messages |-> messages,
                                           needs_search |-> upd.needs_search])
    /\ trace' = Append(trace, "decide")
    /\ completed' = Append(completed, "decide")
    /\ llmCalls' = llmCalls + 1
    /\ UNCHANGED <<ivars, mvars>>
    /\ UNCHANGED <<messages, inputs, results, formatted_results, prompt, answer,
                   searchCalls>>

\* llm.invoke raises inside should_search_node
DecideRaises ==
    /\ pc = "decide"
    /\ raised' = "decide"
    /\ pc' = "aborted"
    /\ trace' = Append(trace, "decide")
    /\ llmCalls' = llmCalls + 1
    /\ UNCHANGED <<ivars, mvars>>
    /\ UNCHANGED <<messages, needs_search, completed, inputs, classification,
                   results, formatted_results, prompt, answer, searchCalls>>

\* node "search" returns
Search ==
    /\ pc = "search"
    /\ UNCHANGED raised
    /\ \E rs \in ResultLists :
         /\ results' = rs
         /\ formatted_results' = FormatResults(rs)
         /\ messages' = messages \o search_node(AgentState, rs).messages
    /\ pc' = EdgeFrom("search")
    /\ trace' = Append(trace, "search")
    /\ completed' = Append(completed, "search")
    /\ searchCalls' = searchCalls + 1
    /\ UNCHANGED <<ivars, mvars>>
    /\ UNCHANGED <<needs_search, inputs, classification, prompt, answer, llmCalls>>

\* (mutant) search_node catches the failure and returns no results
SearchRaises_recovered ==
    /\ pc = "search"
    /\ raised' = "search"
    /\ messages' = messages \o search_node(AgentState, <<>>).messages
    /\ pc' = EdgeFrom("search")
    /\ trace' = Append(trace, "search")
    /\ completed' = Append(completed, "search")
    /\ searchCalls' = searchCalls + 1
    /\ UNCHANGED <<ivars, mvars>>
    /\ UNCHANGED <<ivars, mvars>>
    /\ UNCHANGED <<needs_search, inputs, classification, results,
                   formatted_results, prompt, answer, llmCalls>>

\* search_tool.invoke raises: nothing catches it inside the graph
SearchRaises ==
    /\ pc = "search"
    /\ raised' = "search"
    /\ pc' = "aborted"
    /\ trace' = Append(trace, "search")
    /\ searchCalls' = searchCalls + 1
    /\ UNCHANGED <<ivars, mvars>>
    /\ UNCHANGED <<messages, needs_search, completed, inputs, classification,
                   results, formatted_results, prompt, answer, llmCalls>>

\* node "respond" returns
Respond ==
    /\ pc = "respond"
    /\ UNCHANGED raised
    /\ prompt' = BuildPrompt(AgentState)
    /\ \E response \in Answers :
         /\ answer' = response
         /\ messages' = messages \o respond_node(AgentState, response).messages
    /\ pc' = EdgeFrom("respond")
    /\ trace' = Append(trace, "respond")
    /\ completed' = Append(completed, "respond")
    /\ llmCalls' = llmCalls + 1
    /\ UNCHANGED <<ivars, mvars>>
    /\ UNCHANGED <<needs_search, inputs, classification, results,
                   formatted_results, searchCalls>>

\* llm.invoke raises inside respond_node
RespondRaises ==
    /\ pc = "respond"
    /\ raised' = "respond"
    /\ prompt' = BuildPrompt(AgentState)
    /\ pc' = "aborted"
    /\ trace' = Append(trace, "respond")
    /\ llmCalls' = llmCalls + 1
    /\ UNCHANGED <<ivars, mvars>>
    /\ UNCHANGED <<messages, needs_search, completed, inputs, classification,
                   results, formatted_results, answer, searchCalls>>

NextGraph ==
    \/ Decide
    \/ DecideRaises
    \/ Search
    \/ SearchRaises
    \/ Respond
    \/ RespondRaises

SpecGraph == InitGraph /\ [][NextGraph]_vars

\* =========================================================================
\* lanchain_agent_aws_memory.py: agent_invocation
\* =========================================================================
MaxSteps == 3       \* chunks the agent's stream yields in one run

\* str.strip(), the blank being the whitespace token
RECURSIVE LStrip(_)
LStrip(t) == IF Len(t) > 0 /\ Head(t) = " " THEN LStrip(Tail(t)) ELSE t
RECURSIVE RStrip(_)
RStrip(t) ==
    IF Len(t) > 0 /\ t[Len(t)] = " " THEN RStrip(SubSeq(t, 1, Len(t) - 1)) ELSE t
Strip(t) == RStrip(LStrip(t))

\* dict.get(key, default)
Get(d, key, default) == IF key \in DOMAIN d THEN d[key] ELSE default

PromptValues ==
    {PyStr(<<>>), PyStr(<<" ">>), PyStr(<<"x">>), PyStr(<<" ", "2+2?", " ">>), PyNone}
KeyValues(k) ==
    CASE k = "prompt" -> PromptValues
      [] k = "actor_id" -> {PyStr(<<"u1">>)}
      [] k = "thread_id" -> {PyStr(<<"t1">>)}
      [] k = "session_id" -> {PyStr(<<"s1">>)}
AllValues == PromptValues \cup {PyStr(<<"u1">>), PyStr(<<"t1">>), PyStr(<<"s1">>)}
Dicts ==
    UNION {{d \in [K -> AllValues] : \A k \in K : d[k] \in KeyValues(k)} :
              K \in SUBSET {"prompt", "actor_id", "thread_id", "session_id"}}
Payloads ==
    {PyNone, [t |-> "list", v |-> <<PyStr(<<"x">>)>>]} \cup {[t |-> "dict", v |-> d] : d \in Dicts}

\* what the stream yields: a state without "messages", or with a messages
\* list, of which the handler reads the last element
LastMsgs ==
    {[type |-> "human", content |-> <<"x">>, tool_calls |-> FALSE],
     [type |-> "tool", content |-> <<"r">>, tool_calls |-> FALSE]}
    \cup [type : {"ai"}, content : {<<>>, <<"4">>, <<"5">>}, tool_calls : BOOLEAN]
Chunks ==
    {[has_messages |-> FALSE], [has_messages |-> TRUE, messages |-> <<>>]}
    \cup {[has_messages |-> TRUE, messages |-> <<m>>] : m \in LastMsgs}

\* Python truthiness of the payload
PayloadTruthy(p) ==
    CASE p.t = "NoneType" -> FALSE
      [] p.t = "list" -> Len(p.v) > 0
      [] p.t = "dict" -> DOMAIN p.v # {}

ErrorRecord(msg) == [error |-> PyStr(msg), result |-> PyNone]

\* (mutant) the empty-prompt test left out
PromptMissing_never(user_message) == FALSE

\* not user_message
PromptMissing(user_message) == user_message = <<>>

\* (mutant) the final answer is not tested before the success record is built
AnswerMissing_never(fa) == FALSE

\* not final_answer
AnswerMissing(fa) == fa = PyNone \/ fa.v = <<>>

\* the final-answer test on the last message of a chunk
IsFinalAnswer(m) == m.type = "ai" /\ m.content # <<>> /\ ~m.tool_calls

InitInvoke ==
    /\ IdleGraph
    /\ IdleMemory
    /\ payload \in Payloads
    /\ ipc = "start"
    /\ config = PyNone
    /\ step = 0
    /\ final_answer = PyNone
    /\ agentRuns = 0
    /\ runEnd = "none"
    /\ ret = PyNone

\* from entry to the first iteration of the stream loop
Validate ==
    /\ ipc = "start"
    /\ IF ~PayloadTruthy(payload) \/ payload.t # "dict"
       THEN /\ ret' = ErrorRecord(<<"Invalid payload format. Expected JSON dict with 'prompt' key">>)
            /\ ipc' = "returned"
            /\ UNCHANGED <<config, agentRuns>>
       ELSE LET p == Get(payload.v, "prompt", PyStr(<<>>))
            IN IF p.t # "str"
               THEN \* .strip() raises AttributeError: the outer handler
                    /\ ret' = [error |-> PyStr(<<"Unexpected error in agent_invocation: ", "AttributeError">>),
                               result |-> PyNone, success |-> FALSE]
                    /\ ipc' = "returned"
                    /\ UNCHANGED <<config, agentRuns>>
               ELSE /\ config' =
                         [configurable |->
                            [thread_id |-> Get(payload.v, "thread_id",
                                               Get(payload.v, "session_id",
                                                   PyStr(<<"default-session">>))),
                             actor_id |-> Get(payload.v, "actor_id",
                                              PyStr(<<"default-user">>))]]
                    /\ IF PromptMissing(Strip(p.v))
                       THEN /\ ret' = ErrorRecord(<<"No prompt found in input. Please provide a 'prompt' key with your question.">>)
                            /\ ipc' = "returned"
                            /\ UNCHANGED agentRuns
                       ELSE /\ ipc' = "streaming"
                            /\ agentRuns' = agentRuns + 1
                            /\ UNCHANGED ret
    /\ UNCHANGED <<payload, step, final_answer, runEnd>>
    /\ UNCHANGED <<gvars, mvars>>

\* one iteration of the loop over agent_executor.stream
StreamChunk ==
    /\ ipc = "streaming"
    /\ step < MaxSteps
    /\ \E chunk \in Chunks :
         /\ step' = step + 1
         /\ IF ~chunk.has_messages
            THEN UNCHANGED <<final_answer, ipc, ret, runEnd>>
            ELSE IF Len(chunk.messages) = 0
            THEN \* chunk["messages"][-1] raises IndexError: the inner handler
                 /\ ret' = ErrorRecord(<<"Error during agent execution: ", "IndexError">>)
                 /\ ipc' = "returned"
                 /\ runEnd' = "raised"
                 /\ UNCHANGED final_answer
            ELSE LET last_msg == chunk.messages[Len(chunk.messages)]
                 IN /\ final_answer' = IF IsFinalAnswer(last_msg)
                                       THEN PyStr(last_msg.content) ELSE final_answer
                    /\ UNCHANGED <<ipc, ret, runEnd>>
    /\ UNCHANGED <<payload, config, agentRuns>>
    /\ UNCHANGED <<gvars, mvars>>

\* the agent run raises: the inner handler
StreamRaises ==
    /\ ipc = "streaming"
    /\ ret' = ErrorRecord(<<"Error during agent execution: ", "e">>)
    /\ ipc' = "returned"
    /\ runEnd' = "raised"
    /\ UNCHANGED <<payload, config, step, final_answer, agentRuns>>
    /\ UNCHANGED <<gvars, mvars>>

\* the stream is exhausted: the code after the loop
StreamEnds ==
    /\ ipc = "streaming"
    /\ ret' = IF AnswerMissing(final_answer)
              THEN ErrorRecord(<<"Agent failed to generate a response">>)
              ELSE [result |-> final_answer, steps |-> step, success |-> TRUE]
    /\ ipc' = "returned"
    /\ runEnd' = "exhausted"
    /\ UNCHANGED <<payload, config, step, final_answer, agentRuns>>
    /\ UNCHANGED <<gvars, mvars>>

NextInvoke ==
    \/ Validate
    \/ StreamChunk
    \/ StreamRaises
    \/ StreamEnds

SpecInvoke == InitInvoke /\ [][NextInvoke]_vars

\* =========================================================================
\* lanchain_agent_aws_memory.py: MemoryMiddleware
\* =========================================================================
NumInvocations == 2     \* invocations running concurrently on the one store
LookupLimit == 5

Invocations == 1..NumInvocations

Human(c) == [type |-> "human", content |-> c]
AI(c) == [type |-> "ai", content |-> c]

\* the conversations an invocation may start with
HookInputs ==
    { <<Human(<<"hi">>)>>,
      <<Human(<<"hi">>), AI(<<"ok">>), Human(<<"yo">>)>>,
      <<AI(<<"ok">>)>> }
Threads == {<<"t1">>, <<"t2">>}

\* for msg in reversed(messages): if isinstance(msg, cls): ... break
HasType(msgs, cls) == \E k \in 1..Len(msgs) : msgs[k].type = cls
\* (mutant) the scan without reversed(): the first match
LastOfType_first(msgs, cls) ==
    msgs[CHOOSE k \in 1..Len(msgs) :
            /\ msgs[k].type = cls
            /\ \A j \in 1..(k - 1) : msgs[j].type # cls]

LastOfType(msgs, cls) ==
    msgs[CHOOSE k \in 1..Len(msgs) :
            /\ msgs[k].type = cls
            /\ \A j \in (k + 1)..Len(msgs) : msgs[j].type # cls]

\* namespace = (actor_id, thread_id)
Namespace(cfg) == <<cfg.actor_id, cfg.thread_id>>

\* (mutant) the record is keyed by the session instead of a generated id
PutKey_per_session(cfg) == 0

\* str(uuid.uuid4()): a value no earlier call returned
PutKey(cfg) == nextUuid

\* store.put(namespace, key, value): writes the record under (namespace, key),
\* replacing the one already there
StorePut(st, ns, key, value) ==
    IF \E k \in 1..Len(st) : st[k].namespace = ns /\ st[k].key = key
    THEN [k \in 1..Len(st) |->
            IF st[k].namespace = ns /\ st[k].key = key
            THEN [namespace |-> ns, key |-> key, value |-> value]
            ELSE st[k]]
    ELSE Append(st, [namespace |-> ns, key |-> key, value |-> value])

\* (mutant) the lookup's exception leaves the hook
AfterLookup_uncaught(outcome) == IF outcome = "raises" THEN "failed" ELSE "model"

\* try: store.search(...) except Exception: print(...)
AfterLookup(outcome) == "model"

InitMemory ==
    /\ IdleGraph
    /\ IdleInvoke
    /\ store = <<>>
    /\ nextUuid = 1
    /\ hpc = [i \in Invocations |-> "pre"]
    /\ hconfig \in [Invocations -> [actor_id : {<<"u1">>}, thread_id : Threads]]
    /\ hinput \in [Invocations -> HookInputs]
    /\ hstate = hinput
    /\ puts = [i \in Invocations |-> <<>>]
    /\ lookups = [i \in Invocations |-> <<>>]
    /\ preRet = [i \in Invocations |-> PyNone]
    /\ postRet = [i \in Invocations |-> PyNone]

\* (mutant) the hook goes on to the lookup without having written the message
PrePut_without_put(i) ==
    /\ hpc[i] = "pre"
    /\ IF HasType(hstate[i], "human")
       THEN /\ hpc' = [hpc EXCEPT ![i] = "lookup"]
            /\ UNCHANGED preRet
       ELSE /\ preRet' = [preRet EXCEPT ![i] = [messages |-> hstate[i]]]
            /\ hpc' = [hpc EXCEPT ![i] = "model"]
    /\ UNCHANGED <<store, puts, nextUuid, hconfig, hinput, hstate, lookups, postRet>>
    /\ UNCHANGED <<gvars, ivars>>

\* pre_model_hook up to and including store.put; without a HumanMessage the
\* loop ends and the hook returns
PrePut(i) ==
    /\ hpc[i] = "pre"
    /\ LET msgs == hstate[i]
           ns == Namespace(hconfig[i])
       IN IF HasType(msgs, "human")
          THEN LET msg == LastOfType(msgs, "human")
                   key == PutKey(hconfig[i])
               IN /\ store' = StorePut(store, ns, key, [message |-> msg])
                  /\ puts' = [puts EXCEPT ![i] =
                                Append(@, [hook |-> "pre", namespace |-> ns,
                                           key |-> key, value |-> [message |-> msg]])]
                  /\ nextUuid' = nextUuid + 1
                  /\ hpc' = [hpc EXCEPT ![i] = "lookup"]
                  /\ UNCHANGED preRet
          ELSE /\ preRet' = [preRet EXCEPT ![i] = [messages |-> msgs]]
               /\ hpc' = [hpc EXCEPT ![i] = "model"]
               /\ UNCHANGED <<store, puts, nextUuid>>
    /\ UNCHANGED <<hconfig, hinput, hstate, lookups, postRet>>
    /\ UNCHANGED <<gvars, ivars>>

\* pre_model_hook from store.search to its return
PreLookup(i) ==
    /\ hpc[i] = "lookup"
    /\ LET msgs == hstate[i]
           msg == LastOfType(msgs, "human")
       IN \E outcome \in {"returns", "raises"} :
            /\ lookups' = [lookups EXCEPT ![i] =
                             Append(@, [namespace |-> <<<<"preferences">>, hconfig[i].actor_id>>,
                                        query |-> msg.content,
                                        limit |-> LookupLimit,
                                        outcome |-> outcome])]
            /\ hpc' = [hpc EXCEPT ![i] = AfterLookup(outcome)]
            /\ preRet' = [preRet EXCEPT ![i] =
                            IF AfterLookup(outcome) = "model"
                            THEN [messages |-> msgs] ELSE @]
    /\ UNCHANGED <<store, nextUuid, hconfig, hinput, hstate, puts, postRet>>
    /\ UNCHANGED <<gvars, ivars>>

\* the model call between the hooks returns an AIMessage
ModelCall(i) ==
    /\ hpc[i] = "model"
    /\ hstate' = [hstate EXCEPT ![i] = Append(preRet[i].messages, AI(<<"re">>))]
    /\ hpc' = [hpc EXCEPT ![i] = "post"]
    /\ UNCHANGED <<store, nextUuid, hconfig, hinput, puts, lookups, preRet, postRet>>
    /\ UNCHANGED <<gvars, ivars>>

\* the model call raises: the turn is over
ModelRaises(i) ==
    /\ hpc[i] = "model"
    /\ hpc' = [hpc EXCEPT ![i] = "failed"]
    /\ UNCHANGED <<store, nextUuid, hconfig, hinput, hstate, puts, lookups, preRet,
                   postRet>>
    /\ UNCHANGED <<gvars, ivars>>

\* post_model_hook
PostPut(i) ==
    /\ hpc[i] = "post"
    /\ LET msgs == hstate[i]
           ns == Namespace(hconfig[i])
       IN IF HasType(msgs, "ai")
          THEN LET msg == LastOfType(msgs, "ai")
                   key == PutKey(hconfig[i])
               IN /\ store' = StorePut(store, ns, key, [message |-> msg])
                  /\ puts' = [puts EXCEPT ![i] =
                                Append(@, [hook |-> "post", namespace |-> ns,
                                           key |-> key, value |-> [message |-> msg]])]
                  /\ nextUuid' = nextUuid + 1
          ELSE UNCHANGED <<store, puts, nextUuid>>
    /\ hpc' = [hpc EXCEPT ![i] = "done"]
    /\ postRet' = [postRet EXCEPT ![i] = [messages |-> hstate[i]]]
    /\ UNCHANGED <<hconfig, hinput, hstate, lookups, preRet>>
    /\ UNCHANGED <<gvars, ivars>>

NextMemory ==
    \E i \in Invocations :
        \/ PrePut(i)
        \/ PreLookup(i)
        \/ ModelCall(i)
        \/ ModelRaises(i)
        \/ PostPut(i)

SpecMemory == InitMemory /\ [][NextMemory]_vars

\* post_model_hook by itself: every invocation runs it once on the state it
\* is handed, all of them on the one store
PostHookInputs ==
    HookInputs \cup { <<AI(<<"ok">>), Human(<<"hi">>), AI(<<"re">>)>> }

InitPostHook ==
    /\ IdleGraph
    /\ IdleInvoke
    /\ store = <<>>
    /\ nextUuid = 1
    /\ hpc = [i \in Invocations |-> "post"]
    /\ hconfig \in [Invocations -> [actor_id : {<<"u1">>}, thread_id : Threads]]
    /\ hinput \in [Invocations -> PostHookInputs]
    /\ hstate = hinput
    /\ puts = [i \in Invocations |-> <<>>]
    /\ lookups = [i \in Invocations |-> <<>>]
    /\ preRet = [i \in Invocations |-> PyNone]
    /\ postRet = [i \in Invocations |-> PyNone]

NextPostHook == \E i \in Invocations : PostPut(i)

SpecPostHook == InitPostHook /\ [][NextPostHook]_vars

\* =========================================================================
\* Properties of the graph (checked under SpecGraph)
\* =========================================================================
Yes == <<"y", "e", "s">>
DSR == <<"decide", "search", "respond">>
DR == <<"decide", "respond">>
IsPrefix(a, b) == Len(a) <= Len(b) /\ SubSeq(b, 1, Len(a)) = a
Occurs(x, s) == \E i \in 1..Len(s) : s[i] = x
DecideReturned == Len(completed) >= 1

\* C1: once decide has returned, the node executed next is fixed by the
\* classification text: without "yes" (after lower-casing) needs_search is
\* false, the next node is respond and search is never executed; with "yes"
\* the next node is search, and respond is executed only after it.
C1_RoutingFollowsClassification ==
    DecideReturned =>
        IF In(Yes, Lower(classification))
        THEN /\ (Len(trace) = 1 => pc = "search")
             /\ (Len(trace) >= 2 => trace[2] = "search")
             /\ (Occurs("respond", trace) => trace = DSR)
        ELSE /\ needs_search = FALSE
             /\ (Len(trace) = 1 => pc = "respond")
             /\ (Len(trace) >= 2 => trace[2] = "respond")
             /\ ~Occurs("search", trace)

\* a run that went decide, search, respond on a mixed-case "yes" inside
\* other text
C1_Witness ==
    pc = "END" /\ trace = DSR /\ classification = <<"n", "Y", "e", "s">>

\* C2: after should_search_node, needs_search is true exactly when the
\* lower-cased response contains "yes", whatever needs_search was before.
C2_NeedsSearchIffYes ==
    DecideReturned =>
        /\ needs_search = (\E i \in 1..(Len(classification) - 2) :
                             /\ LowerChar(classification[i]) = "y"
                             /\ LowerChar(classification[i + 1]) = "e"
                             /\ LowerChar(classification[i + 2]) = "s")
        /\ (~Occurs("y", Lower(classification)) => ~needs_search)

\* the flag was true on entry and a response without "yes" cleared it
C2_Witness ==
    /\ DecideReturned
    /\ inputs.needs_search = TRUE
    /\ classification = <<"n">>
    /\ needs_search = FALSE

\* C3 (as stated): every invocation runs one of the two full node sequences
\* and reaches END.
C3_AlwaysReachesEnd ==
    (pc \in {"END", "aborted"}) => (pc = "END" /\ trace \in {DSR, DR})

\* C3 (amended): the nodes executed form a prefix of decide-search-respond or
\* of decide-respond, so no node runs twice and none is re-entered; the node
\* to run next extends that prefix; END is reached exactly with one of the two
\* full sequences, all of whose nodes returned; an invocation that stops
\* anywhere else stopped because the node executed last raised.
C3_ForwardOnly ==
    /\ IsPrefix(trace, DSR) \/ IsPrefix(trace, DR)
    /\ pc \in {"decide", "search", "respond", "END", "aborted"}
    /\ pc \in {"decide", "search", "respond"} =>
          /\ completed = trace
          /\ Append(trace, pc) \in {<<"decide">>, <<"decide", "search">>, DSR, DR}
    /\ pc = "END" => trace \in {DSR, DR} /\ completed = trace
    /\ pc = "END" <=> (raised = "none" /\ Occurs("respond", trace))
    /\ pc = "aborted" <=> raised # "none"
    /\ pc = "aborted" =>
          /\ Len(trace) >= 1
          /\ raised = Last(trace)
          /\ completed = SubSeq(trace, 1, Len(trace) - 1)
    /\ (pc \notin {"END", "aborted"}) =>
          (ENABLED Decide \/ ENABLED DecideRaises \/ ENABLED Search \/ ENABLED Respond)

C3_Witness == pc = "END" /\ trace = DSR /\ completed = DSR

\* C4 (as stated): the prompt respond_node assembles ends with a user-role
\* message whose content is that of the first user-role message of the
\* history.
FirstUser(msgs) ==
    msgs[CHOOSE i \in 1..Len(msgs) :
            /\ msgs[i].role = "user"
            /\ \A j \in 1..(i - 1) : msgs[j].role # "user"]

C4_PromptEndsWithFirstUser ==
    (Occurs("respond", trace) /\ \E i \in 1..Len(messages) : messages[i].role = "user")
        => /\ Last(prompt).role = "user"
           /\ Last(prompt).content = FirstUser(messages).content

\* C8: the text search_node formats is the lines "Result i: <content>",
\* i = 1..n in adapter order, with a newline between consecutive lines; the
\* message it appends carries that text after the "Search results for" line.
ExpectedLine(i) == <<"Result ", ToString(i), ": ">> \o results[i].content
RECURSIVE ExpectedText(_)
ExpectedText(n) ==
    IF n = 0 THEN <<>>
    ELSE IF n = 1 THEN ExpectedLine(1)
    ELSE ExpectedText(n - 1) \o <<"\n">> \o ExpectedLine(n)

SearchMessage == messages[Len(inputs.messages) + 1]

C9_SearchFailureAborts ==
    (raised = "search") =>
        /\ pc = "aborted"
        /\ trace = <<"decide", "search">> /\ completed = <<"decide">>
        /\ ~ENABLED NextGraph
        /\ messages = inputs.messages
        /\ ~Occurs("respond", trace)
        /\ prompt = <<>> /\ llmCalls = 1

C9_Witness ==
    raised = "search" /\ pc = "aborted" /\ searchCalls = 1 /\ Len(messages) = 3

\* a step of respond: one model call, no search call, one message appended
\* when the call returns and none when it raises
C10_RespondStep ==
    (pc = "respond") =>
        /\ llmCalls' = llmCalls + 1
        /\ searchCalls' = searchCalls
        /\ (pc' = "END" =>
              messages' = Append(messages, [role |-> "assistant", content |-> answer']))
        /\ (pc' # "END" => messages' = messages)

C10_AtEnd ==
    pc = "END" => /\ llmCalls = 2
                  /\ searchCalls <= 1
                  /\ searchCalls = (IF Occurs("search", trace) THEN 1 ELSE 0)

\* C10: every step taken at respond makes exactly one model call and, when
\* the call returns, appends exactly one assistant message with the returned
\* text (C10_RespondStep); at END the model adapter was called exactly twice
\* and the search adapter at most once (C10_AtEnd).
C10_OneCallOneMessage == [][C10_RespondStep]_vars /\ []C10_AtEnd

C10_Witness ==
    /\ pc = "END" /\ trace = DSR /\ llmCalls = 2 /\ searchCalls = 1
    /\ Last(messages) = [role |-> "assistant", content |-> <<"4">>]

\* =========================================================================
\* Properties of agent_invocation (checked under SpecInvoke)
\* =========================================================================
IsErrorRecord(r) ==
    /\ {"error", "result"} \subseteq DOMAIN r
    /\ r.error # PyNone
    /\ r.result = PyNone
    /\ ("success" \in DOMAIN r => r.success = FALSE)
    /\ "steps" \notin DOMAIN r

IsSuccessRecord(r) ==
    /\ DOMAIN r = {"result", "steps", "success"}
    /\ r.success = TRUE
    /\ r.result.t = "str" /\ Len(r.result.v) > 0
    /\ r.steps \in Nat /\ r.steps >= 1

PayloadRejected == payload.t # "dict" \/ DOMAIN payload.v = {}
PromptBlank ==
    /\ payload.t = "dict"
    /\ \/ "prompt" \notin DOMAIN payload.v
       \/ /\ payload.v["prompt"].t = "str"
          /\ \A i \in 1..Len(payload.v["prompt"].v) : payload.v["prompt"].v[i] = " "
NoAnswer == final_answer = PyNone \/ Len(final_answer.v) = 0

\* C5: agent_invocation always ends by returning a record (it has no other
\* exit): a success record {result, steps, success: true} with the non-empty
\* final answer and steps >= 1, returned exactly when the stream was
\* exhausted with a non-empty final answer; otherwise an error record with a
\* non-null error and result null, whose error is exactly "Agent failed to
\* generate a response" when the stream was exhausted without an answer. A
\* rejected payload or a blank prompt yields an error record without the
\* agent having been run.
C5_RecordShapes ==
    /\ ipc \in {"start", "streaming", "returned"}
    /\ (ipc # "returned" => (ENABLED NextInvoke /\ ret = PyNone))
    /\ (ipc = "returned" =>
          /\ IsErrorRecord(ret) \/ IsSuccessRecord(ret)
          /\ IsSuccessRecord(ret) <=> (runEnd = "exhausted" /\ ~NoAnswer)
          /\ IsSuccessRecord(ret) => (ret.result = final_answer /\ ret.steps = step)
          /\ (runEnd = "exhausted" /\ NoAnswer) =>
                ret = [error |-> PyStr(<<"Agent failed to generate a response">>),
                       result |-> PyNone]
          /\ (PayloadRejected \/ PromptBlank) => (IsErrorRecord(ret) /\ agentRuns = 0)
          /\ (runEnd # "none") => agentRuns = 1)

\* payload {"prompt": " 2+2? "}: the answer "4" came after a tool-call step
C5_Witness ==
    /\ ipc = "returned"
    /\ payload = [t |-> "dict", v |-> [prompt |-> PyStr(<<" ", "2+2?", " ">>)]]
    /\ ret = [result |-> PyStr(<<"4">>), steps |-> 3, success |-> TRUE]

\* =========================================================================
\* Properties of the memory middleware (checked under SpecMemory)
\* =========================================================================
PreHookOver(i) == hpc[i] \in {"model", "post", "done", "failed"}
PrePuts(i) == SelectSeq(puts[i], LAMBDA w : w.hook = "pre")
UserPositions(msgs) == {k \in 1..Len(msgs) : msgs[k].type = "human"}
Max(S) == CHOOSE x \in S : \A y \in S : y <= x
InStore(w) ==
    \E k \in 1..Len(store) :
        store[k] = [namespace |-> w.namespace, key |-> w.key, value |-> w.value]

AllPuts == UNION {{puts[i][k] : k \in 1..Len(puts[i])} : i \in Invocations}

RECURSIVE CompletedWrites(_)
CompletedWrites(n) == IF n = 0 THEN 0 ELSE Len(puts[n]) + CompletedWrites(n - 1)

C7_StoreStep ==
    /\ Len(store') >= Len(store)
    /\ SubSeq(store', 1, Len(store)) = store
    /\ Len(store') <= Len(store) + 1

C7_StoreIsAllWrites ==
    /\ \A k, l \in 1..Len(store) : store[k].key = store[l].key => k = l
    /\ \A w \in AllPuts : InStore(w)
    /\ \A k \in 1..Len(store) :
          \E w \in AllPuts :
              store[k] = [namespace |-> w.namespace, key |-> w.key, value |-> w.value]
    /\ Cardinality(AllPuts) = Len(store)
    /\ Len(store) = CompletedWrites(NumInvocations)

\* C7: concurrent invocations' writes never overwrite or remove a record:
\* each step keeps the store's records in place and adds at most one at the
\* end (C7_StoreStep), and the store holds exactly one record per completed
\* write, under pairwise different ids (C7_StoreIsAllWrites).
C7_AppendOnly == [][C7_StoreStep]_vars /\ []C7_StoreIsAllWrites

\* two invocations of one session, both finished, whose four writes
\* interleaved: 2, 1, 1, 2
C7_Witness ==
    /\ hconfig[1] = hconfig[2]
    /\ hpc[1] = "done" /\ hpc[2] = "done"
    /\ Len(puts[1]) = 2 /\ Len(puts[2]) = 2
    /\ puts[2][1].key < puts[1][1].key
    /\ puts[1][2].key < puts[2][2].key
    /\ \A k \in 1..Len(store) : store[k].namespace = <<hconfig[1].actor_id, hconfig[1].thread_id>>

ModelFailed(i) == hpc[i] = "failed"
RecordsOf(ns) == {k \in 1..Len(store) : store[k].namespace = ns}

\* the store under a turn whose model call failed: its user message is there,
\* under the session's namespace, and nothing of that turn holds an assistant
\* message
C11_FailedTurnState ==
    \A i \in Invocations :
        ModelFailed(i) =>
            LET ns == <<hconfig[i].actor_id, hconfig[i].thread_id>>
                users == UserPositions(hinput[i])
            IN /\ hstate[i] = hinput[i]
               /\ \A k \in 1..Len(puts[i]) : puts[i][k].hook = "pre"
               /\ \A k \in 1..Len(puts[i]) : puts[i][k].value.message.type = "human"
               /\ users # {} =>
                     \E k \in RecordsOf(ns) :
                         /\ store[k].value = [message |-> hinput[i][Max(users)]]
                         /\ store[k].key = puts[i][1].key

\* a step in which a model call fails, or any step after one failed, leaves
\* every record of the store where it was and leaves the turn failed
C11_FailedTurnStep ==
    \A i \in Invocations :
        /\ (hpc[i] = "model" /\ hpc'[i] = "failed") => store' = store
        /\ ModelFailed(i) =>
              /\ hpc'[i] = "failed"
              /\ puts'[i] = puts[i]
              /\ \A k \in 1..Len(store) : k <= Len(store') /\ store'[k] = store[k]

AssistantPositions(msgs) == {k \in 1..Len(msgs) : msgs[k].type = "ai"}

OneAssistantAppended ==
    /\ Len(messages') = Len(messages) + 1
    /\ SubSeq(messages', 1, Len(messages)) = messages
    /\ messages'[Len(messages')].role = "assistant"

\* what one step at each node changes of the state
C13_NodeFrame ==
    /\ pc = "decide" => messages' = messages
    /\ pc = "search" =>
          /\ needs_search' = needs_search
          /\ IF pc' = "respond" THEN OneAssistantAppended ELSE messages' = messages
    /\ pc = "respond" =>
          /\ needs_search' = needs_search
          /\ IF pc' = "END" THEN OneAssistantAppended ELSE messages' = messages

\* the messages at any point, and at END
C13_MessagesExtendInputs ==
    /\ Len(messages) >= Len(inputs.messages)
    /\ \A k \in 1..Len(inputs.messages) : messages[k] = inputs.messages[k]
    /\ \A k \in (Len(inputs.messages) + 1)..Len(messages) : messages[k].role = "assistant"
    /\ Len(messages) = Len(inputs.messages) + Len(SelectSeq(completed, LAMBDA n : n # "decide"))
    /\ pc = "END" =>
          /\ messages[Len(messages)] = [role |-> "assistant", content |-> answer]
          /\ IF Occurs("search", trace)
             THEN /\ Len(messages) = Len(inputs.messages) + 2
                  /\ In(Marker, messages[Len(messages) - 1].content)
             ELSE Len(messages) = Len(inputs.messages) + 1

\* C13: the messages are append-only and each node changes only its own part
\* of the state: decide leaves the messages unchanged, search and respond
\* leave needs_search unchanged and each append exactly one assistant
\* message; at END the messages are the initial ones, unmodified, followed by
\* one answer (respond-only path) or by one search-result message and then
\* one answer (search path).
C13_AppendOnlyFrame == [][C13_NodeFrame]_vars /\ []C13_MessagesExtendInputs

\* the search path on a three-message conversation: five messages at END
C13_Witness ==
    /\ pc = "END" /\ trace = DSR
    /\ Len(inputs.messages) = 3 /\ Len(messages) = 5
    /\ inputs.needs_search = FALSE /\ needs_search = TRUE

====
